---------------------------- MODULE Spec2Model ----------------------------
(***************************************************************************)
(* A model of the Bounce cog (src/bounce/bounce.py): quick join/leave      *)
(* detection, graduated sanction, the tempban ledger with its unban loop   *)
(* and the review cards with their override buttons.                       *)
(*                                                                         *)
(* One guild is modelled.  Time is in seconds.  Every coroutine is cut at  *)
(* its awaits on the platform and on the locked config values: the code    *)
(* between two cuts is one action.  `async with config.value()` holds the  *)
(* value's lock from the read to the write, so it is one atomic            *)
(* read-modify-write step here.  The guild settings are durable: they are  *)
(* whatever an earlier run stored, and they are not changed in a run.      *)
(***************************************************************************)
EXTENDS Integers, Sequences, FiniteSets, TLC

\* ------------------------------------------------------------------ bounds
\* Members join up to one window before MaxTime and leave of their own accord up to
\* MaxTime; at most MaxJoins joins happen in a run; the stored count of a member who
\* is not a bot starts anywhere in 0..MaxInitCount.
MaxTime == 120
MaxJoins == 2
MaxInitCount == 1
MaxInitActions == 2
MaxRedelivered == 1
MaxSweepTime == 7202

\* -------------------------------------------------------- program constants
WindowSeconds == 60
BanDurationSeconds == 86400
PermbanThreshold == 3
SettleSeconds == 5
RetentionSeconds == 7200
MinWindowSeconds == 10
MaxWindowSeconds == 3600

Members == {1, 2}
Bots == {2}
Handlers == {1, 2}
TimeSteps == {60}
NoTime == -1

VARIABLES
    now,            \* _utcnow(), seconds
    config,         \* the guild's settings (Config.guild)
    join_cache,     \* self.join_cache[guild.id]: member -> join time or NoTime
    bounce_counts,  \* config bounce_counts: member -> offenses
    tempbans,       \* config tempbans: sequence of [user_id, expires_at]
    log_actions,    \* config log_actions: sequence of [user_id, message_id, payload]
    cards,          \* the messages posted in the log channel, by message id
    status,         \* platform: "in", "out", or "kicked" (removed by a ban, event not yet delivered)
    banned,         \* platform: the guild's ban list
    handlers,       \* the running on_member_remove coroutines
    unban_loop,     \* the running _unban_loop tick
    override,       \* the running _handle_log_action coroutine
    views,          \* the message ids this process holds a live card view for
    restore,        \* the _restore_log_action_views coroutine of cog_load
    notices,        \* the members whose failed ban was reported to the log channel
    last_sanction,  \* history: "permanent" when the member's most recent successful
                    \* sanction was a permanent ban, else "other"
    joins,          \* history: number of join events so far
    leaves          \* history: member -> number of its leave events so far

vars == <<now, config, join_cache, bounce_counts, tempbans, log_actions, cards,
          status, banned, handlers, unban_loop, override, views, restore, notices,
          last_sanction, joins, leaves>>

\* ----------------------------------------------------------------- helpers
IdleHandler ==
    [pc |-> "idle", m |-> 0, leave_time |-> 0, current |-> 0, is_permban |-> FALSE,
     wake |-> 0, unban_time |-> NoTime, message_id |-> 0, actions |-> <<>>,
     mod |-> <<>>, probed |-> <<>>]

IdleLoop == [pc |-> "idle", snapshot |-> <<>>, idx |-> 0, now |-> 0, calls |-> <<>>]

NoActor == [guild_owner |-> FALSE, bot_owner |-> FALSE, member |-> FALSE,
            administrator |-> FALSE]

IdleOverride ==
    [pc |-> "idle", action |-> "", user_id |-> 0, message_id |-> 0, actor |-> NoActor,
     outcome |-> "", response |-> "", actions |-> <<>>]

RestoreDone == [pc |-> "done", actions |-> <<>>]

UsersOf(ledger) == {ledger[i].user_id : i \in 1..Len(ledger)}

RecordsOf(ledger, user_id) == {i \in 1..Len(ledger) : ledger[i].user_id = user_id}

\* _should_ignore_member
ShouldIgnoreMember(m, include_bots) == (m \in Bots) /\ ~include_bots

\* _should_trigger_repeat
ShouldTriggerRepeat(repeat_enabled) == IF ~repeat_enabled THEN FALSE ELSE FALSE

\* _remove_tempban: every record of the user is dropped
RemoveTempban(ledger, user_id) == SelectSeq(ledger, LAMBDA e : e.user_id # user_id)

\* _add_tempban: the record is appended
AddTempban(ledger, user_id, until) ==
    Append(ledger, [user_id |-> user_id, expires_at |-> until])

\* guild.ban: the member is on the ban list, and is removed from the guild if present
PlatformBan(m) ==
    /\ banned' = banned \cup {m}
    /\ status' = [status EXCEPT ![m] = IF @ = "in" THEN "kicked" ELSE @]

\* the handler slot a new on_member_remove coroutine runs in
FreeHandler == CHOOSE h \in Handlers :
    /\ handlers[h].pc = "idle"
    /\ \A g \in Handlers : handlers[g].pc = "idle" => h <= g

InFlight(m) == {h \in Handlers : handlers[h].pc # "idle" /\ handlers[h].m = m}

LastN(seq, n) == IF Len(seq) <= n THEN seq ELSE SubSeq(seq, Len(seq) - n + 1, Len(seq))

\* -------------------------------------------------------------------- Init
Configs ==
    [enabled : BOOLEAN, welcome_enabled : BOOLEAN, include_bots : BOOLEAN,
     log_channel_id : {0, 1}, repeat_enabled : {FALSE}, window_seconds : {WindowSeconds}]

Init ==
    /\ now = 0
    /\ config \in Configs
    /\ join_cache = [m \in Members |-> NoTime]
    /\ bounce_counts \in {c \in [Members -> 0..MaxInitCount] : \A m \in Bots : c[m] = 0}
    /\ tempbans = <<>>
    /\ log_actions = <<>>
    /\ cards = <<>>
    /\ status = [m \in Members |-> "out"]
    /\ banned = {}
    /\ handlers = [h \in Handlers |-> IdleHandler]
    /\ unban_loop = IdleLoop
    /\ override = IdleOverride
    /\ views = {}
    /\ restore = RestoreDone
    /\ notices = {}
    /\ last_sanction = [m \in Members |-> "other"]
    /\ joins = 0
    /\ leaves = [m \in Members |-> 0]

\* The durable action ledgers a process may find when it starts: up to MaxInitActions
\* entries of earlier runs about member 1, each of them whole, or without its user id,
\* or without its message id, or with a payload that is not a dict.
InitEntries(i) ==
    {[user_id |-> u, message_id |-> c,
      payload |-> [dict |-> d, bounce_count |-> IF d THEN 1 ELSE 0, permban |-> FALSE,
                   unban_time |-> NoTime]] :
        u \in {0, 1}, c \in {0, i}, d \in BOOLEAN}

InitLedgers ==
    {<<>>} \cup {<<e>> : e \in InitEntries(1)}
           \cup {<<e, f>> : e \in InitEntries(1), f \in InitEntries(2)}

\* A process starting on stored ledgers: the cards of the earlier runs are posted in the
\* log channel, member 1 is either under a temporary ban with its record or free again,
\* no view is bound yet and cog_load has _restore_log_action_views to run.
InitCards ==
    /\ now = 0
    /\ config = [enabled |-> TRUE, welcome_enabled |-> TRUE, include_bots |-> FALSE,
                 log_channel_id |-> 1, repeat_enabled |-> FALSE,
                 window_seconds |-> WindowSeconds]
    /\ join_cache = [m \in Members |-> NoTime]
    /\ bounce_counts = [m \in Members |-> 0]
    /\ tempbans \in {<<>>, <<[user_id |-> 1, expires_at |-> BanDurationSeconds]>>}
    /\ banned = UsersOf(tempbans)
    /\ log_actions \in {l \in InitLedgers : Len(l) <= MaxInitActions}
    /\ cards = [i \in 1..Len(log_actions) |->
                  [user_id |-> 1, permban |-> FALSE, disabled |-> FALSE]]
    /\ status = [m \in Members |-> "out"]
    /\ handlers = [h \in Handlers |-> IdleHandler]
    /\ unban_loop = IdleLoop
    /\ override = IdleOverride
    /\ views = {}
    /\ restore = [pc |-> "start", actions |-> <<>>]
    /\ notices = {}
    /\ last_sanction = [m \in Members |-> "other"]
    /\ joins = 0
    /\ leaves = [m \in Members |-> 0]

\* ------------------------------------------------------------ on_member_join
\* What on_member_join leaves in the join cache.
JoinCacheAfterJoin(m) ==
    IF ~config.welcome_enabled THEN join_cache
    ELSE IF ShouldIgnoreMember(m, config.include_bots) THEN join_cache
    ELSE IF ~config.enabled THEN join_cache
    ELSE [join_cache EXCEPT ![m] = now]

MemberJoin(m) ==
    /\ status[m] = "out"
    /\ m \notin banned
    /\ joins < MaxJoins
    /\ status' = [status EXCEPT ![m] = "in"]
    /\ joins' = joins + 1
    /\ join_cache' = JoinCacheAfterJoin(m)
    /\ UNCHANGED <<now, config, bounce_counts, tempbans, log_actions, cards, banned,
                   handlers, unban_loop, override, last_sanction,
                   views, restore,
                   notices, leaves>>

\* on_member_join within the modelled span of time
OnMemberJoin(m) == now + WindowSeconds <= MaxTime /\ MemberJoin(m)

\* ---------------------------------------------------------- on_member_remove
\* OutsideWindow with the window read as minutes
OutsideWindowMinutes(elapsed, window_seconds, is_repeat) ==
    elapsed > window_seconds * 60 /\ ~is_repeat

\* The escalation policy's first half: is the leave outside the window and unflagged?
OutsideWindow(elapsed, window_seconds, is_repeat) == elapsed > window_seconds /\ ~is_repeat

\* IsPermban with the threshold off by one
IsPermbanAbove(current) == current > PermbanThreshold

\* The escalation policy's second half, on the counter value after the increment.
IsPermban(current) == current >= PermbanThreshold

\* CountAndNotify counting the offense only when the notice went through
CountAndNotifyIfNotified(h, m) ==
    LET current == bounce_counts[m] + 1
    IN \E dm_ok \in BOOLEAN :
         /\ bounce_counts' = IF dm_ok THEN [bounce_counts EXCEPT ![m] = current]
                             ELSE bounce_counts
         /\ handlers' = [handlers EXCEPT ![h] =
                [IdleHandler EXCEPT !.pc = "sleep", !.m = m, !.leave_time = now,
                                    !.current = current,
                                    !.is_permban = current >= PermbanThreshold,
                                    !.wake = now + SettleSeconds]]

\* Lines 661-676, for a leave inside the window: the locked increment of the offense
\* counter, the decision, the notice to the member (which may fail) and the start of
\* the settle delay.  None of it reads what another coroutine writes between its
\* awaits, except the counter, which is read and written under its lock.
CountAndNotify(h, m) ==
    LET current == bounce_counts[m] + 1
    IN /\ bounce_counts' = [bounce_counts EXCEPT ![m] = current]
       /\ \E dm_ok \in BOOLEAN :
            handlers' = [handlers EXCEPT ![h] =
                [IdleHandler EXCEPT !.pc = "sleep", !.m = m, !.leave_time = now,
                                    !.current = current,
                                    !.is_permban = IsPermban(current),
                                    !.wake = now + SettleSeconds]]

\* TakeJoin leaving the join record where it is
TakeJoinPeek(m) == join_cache

\* Line 651: guild_cache.pop(member.id, None), what it leaves in the cache
TakeJoin(m) == [join_cache EXCEPT ![m] = NoTime]

\* Lines 645-676: the ignore checks, the pop of the join record, the window test, and
\* for a bounce the count and the notice.
LeaveHandling(m) ==
    IF ShouldIgnoreMember(m, config.include_bots) \/ ~config.enabled
    THEN UNCHANGED <<join_cache, bounce_counts, handlers>>
    ELSE /\ join_cache' = TakeJoin(m)
         /\ IF join_cache[m] = NoTime
            THEN UNCHANGED <<bounce_counts, handlers>>
            ELSE IF OutsideWindow(now - join_cache[m], config.window_seconds,
                                  ShouldTriggerRepeat(config.repeat_enabled))
            THEN UNCHANGED <<bounce_counts, handlers>>
            ELSE CountAndNotify(FreeHandler, m)

\* on_member_remove for a member who leaves, or whom a ban removed.
MemberRemove(m) ==
    /\ status[m] \in {"in", "kicked"}
    /\ \E h \in Handlers : handlers[h].pc = "idle"
    /\ status' = [status EXCEPT ![m] = "out"]
    /\ leaves' = [leaves EXCEPT ![m] = @ + 1]
    /\ LeaveHandling(m)
    /\ UNCHANGED <<now, config, tempbans, log_actions, cards, banned,
                   unban_loop, override, last_sanction, joins,
                   views, restore, notices>>

\* on_member_remove within the modelled span of time
OnMemberRemove(m) == (status[m] = "kicked" \/ now <= MaxTime) /\ MemberRemove(m)

\* on_member_remove dispatched once more for a member who is already gone.
OnMemberRemoveAgain(m) ==
    /\ status[m] = "out"
    /\ leaves[m] >= 1
    /\ leaves[1] + leaves[2] < joins + MaxRedelivered
    /\ now <= MaxTime
    /\ \E h \in Handlers : handlers[h].pc = "idle"
    /\ leaves' = [leaves EXCEPT ![m] = @ + 1]
    /\ LeaveHandling(m)
    /\ UNCHANGED <<now, config, tempbans, log_actions, cards, status, banned,
                   unban_loop, override, last_sanction, joins,
                   views, restore, notices>>

\* FailureNotices with nothing sent to the log channel
FailureNoticesNone(m) == notices

\* Lines 686-694 and 699-707: a failed ban is reported in the log channel when one is
\* configured (the send is the report; what becomes of it is swallowed).
FailureNotices(m) == IF config.log_channel_id # 0 THEN notices \cup {m} ELSE notices

\* Lines 677-695: the permanent ban; a failure is reported and ends the handler.
RemovePermban(h) ==
    /\ handlers[h].pc = "sleep"
    /\ now >= handlers[h].wake
    /\ handlers[h].is_permban
    /\ \E ok \in BOOLEAN :
         IF ok
         THEN /\ PlatformBan(handlers[h].m)
              /\ last_sanction' = [last_sanction EXCEPT ![handlers[h].m] = "permanent"]
              /\ handlers' = [handlers EXCEPT ![h].pc = "clear", ![h].wake = 0]
              /\ UNCHANGED notices
         ELSE /\ handlers' = [handlers EXCEPT ![h] = IdleHandler]
              /\ notices' = FailureNotices(handlers[h].m)
              /\ UNCHANGED <<status, banned, last_sanction>>
    /\ UNCHANGED <<now, config, join_cache, bounce_counts, tempbans, log_actions, cards,
                   unban_loop, override, joins, views, restore, leaves>>

\* Line 684: _remove_tempban after the permanent ban.
RemoveClearTempban(h) ==
    /\ handlers[h].pc = "clear"
    /\ tempbans' = RemoveTempban(tempbans, handlers[h].m)
    /\ handlers' = [handlers EXCEPT ![h].pc = "log", ![h].unban_time = NoTime]
    /\ UNCHANGED <<now, config, join_cache, bounce_counts, log_actions, cards, status,
                   banned, unban_loop, override, last_sanction, joins,
                   views, restore,
                   notices, leaves>>

\* ------------------------------------------------------------ _try_mod_tempban
\* Line 557-560: the names tried on the Mod cog, in this order.
Candidates == <<"_tempban", "tempban_user", "tempban_member", "tempban">>

\* What a name of the Mod cog may be: not there, there but not callable, raising
\* TypeError when called with these arguments, raising another exception, completing.
Behaviours == {"missing", "not_callable", "type_error", "error", "ok"}

\* bot.get_cog("Mod") finding nothing
NoMod == <<>>

\* the Mod cogs the bot may have loaded: none, or one behaviour for each candidate
ModCogs == {NoMod} \cup [1..Len(Candidates) -> Behaviours]

\* the Mod cogs of the pipeline's specifications: none, and one whose tempban completes
SpecMods == {NoMod, <<"missing", "missing", "missing", "ok">>}

RECURSIVE TryCandidatesStopping(_, _, _)
\* TryCandidates giving up at the first candidate that raises, TypeError included
TryCandidatesStopping(mod, i, invoked) ==
    IF i > Len(Candidates) THEN [handled |-> FALSE, invoked |-> invoked]
    ELSE IF mod[i] \in {"missing", "not_callable"}
    THEN TryCandidatesStopping(mod, i + 1, invoked)
    ELSE [handled |-> mod[i] = "ok", invoked |-> Append(invoked, Candidates[i])]

RECURSIVE TryCandidates(_, _, _)
\* Lines 562-572: the loop over the candidates from the i-th on, with the names called
\* so far.
TryCandidates(mod, i, invoked) ==
    IF i > Len(Candidates) THEN [handled |-> FALSE, invoked |-> invoked]
    ELSE IF mod[i] \in {"missing", "not_callable"}
    THEN TryCandidates(mod, i + 1, invoked)
    ELSE IF mod[i] = "ok"
    THEN [handled |-> TRUE, invoked |-> Append(invoked, Candidates[i])]
    ELSE IF mod[i] = "type_error"
    THEN TryCandidates(mod, i + 1, Append(invoked, Candidates[i]))
    ELSE [handled |-> FALSE, invoked |-> Append(invoked, Candidates[i])]

\* _try_mod_tempban: whether the Mod cog took the tempban, and the names it called
TryModTempban(mod) ==
    IF mod = NoMod THEN [handled |-> FALSE, invoked |-> <<>>]
    ELSE TryCandidates(mod, 1, <<>>)

\* _handle_tempban, lines 582-584: the Mod cog took the tempban; no record is written.
TempbanDelegated(h, mod) ==
    /\ handlers[h].pc = "sleep"
    /\ now >= handlers[h].wake
    /\ ~handlers[h].is_permban
    /\ TryModTempban(mod).handled
    /\ PlatformBan(handlers[h].m)
    /\ last_sanction' = [last_sanction EXCEPT ![handlers[h].m] = "other"]
    /\ handlers' = [handlers EXCEPT ![h].pc = "log", ![h].wake = 0,
                                    ![h].unban_time = now + BanDurationSeconds,
                                    ![h].mod = mod,
                                    ![h].probed = TryModTempban(mod).invoked]
    /\ UNCHANGED <<now, config, join_cache, bounce_counts, tempbans, log_actions, cards,
                   unban_loop, override, joins,
                   views, restore,
                   notices, leaves>>

RemoveTempbanDelegated(h) == \E mod \in SpecMods : TempbanDelegated(h, mod)

\* _handle_tempban, lines 582-588, and lines 696-708: the Mod cog did not take it; the
\* direct ban, whose failure is reported and ends the handler.
TempbanDirect(h, mod) ==
    /\ handlers[h].pc = "sleep"
    /\ now >= handlers[h].wake
    /\ ~handlers[h].is_permban
    /\ ~TryModTempban(mod).handled
    /\ \E ok \in BOOLEAN :
         IF ok
         THEN /\ PlatformBan(handlers[h].m)
              /\ last_sanction' = [last_sanction EXCEPT ![handlers[h].m] = "other"]
              /\ handlers' = [handlers EXCEPT ![h].pc = "add", ![h].wake = 0,
                                              ![h].unban_time = now + BanDurationSeconds,
                                              ![h].mod = mod,
                                              ![h].probed = TryModTempban(mod).invoked]
              /\ UNCHANGED notices
         ELSE /\ handlers' = [handlers EXCEPT ![h] = IdleHandler]
              /\ notices' = FailureNotices(handlers[h].m)
              /\ UNCHANGED <<status, banned, last_sanction>>
    /\ UNCHANGED <<now, config, join_cache, bounce_counts, tempbans, log_actions, cards,
                   unban_loop, override, joins, views, restore, leaves>>

RemoveTempbanDirect(h) == \E mod \in SpecMods : TempbanDirect(h, mod)

\* _handle_tempban, line 589: _add_tempban after the direct ban.
RemoveAddTempban(h) ==
    /\ handlers[h].pc = "add"
    /\ tempbans' = AddTempban(tempbans, handlers[h].m, handlers[h].unban_time)
    /\ handlers' = [handlers EXCEPT ![h].pc = "log"]
    /\ UNCHANGED <<now, config, join_cache, bounce_counts, log_actions, cards, status,
                   banned, unban_loop, override, last_sanction, joins,
                   views, restore,
                   notices, leaves>>

\* StoreLogAction appending whatever the ledger holds
StoreLogActionAlways(actions, user_id, message_id, payload) ==
    LastN(Append(actions, [user_id |-> user_id, message_id |-> message_id,
                           payload |-> payload]), 300)

\* _store_log_action on the ledger it has read: a message id already stored is left
\* alone; the last 300 are kept.
StoreLogAction(actions, user_id, message_id, payload) ==
    IF \E i \in 1..Len(actions) : actions[i].message_id = message_id
    THEN actions
    ELSE LastN(Append(actions, [user_id |-> user_id, message_id |-> message_id,
                                payload |-> payload]), 300)

\* Payload with the unban time planned before the settle delay (line 666)
PayloadPlanned(h) ==
    [dict |-> TRUE, bounce_count |-> handlers[h].current,
     permban |-> handlers[h].is_permban,
     unban_time |-> IF handlers[h].is_permban THEN NoTime
                    ELSE handlers[h].leave_time + BanDurationSeconds]

\* Lines 372-382: the payload of the card
Payload(h) ==
    [dict |-> TRUE, bounce_count |-> handlers[h].current,
     permban |-> handlers[h].is_permban,
     unban_time |-> IF handlers[h].is_permban THEN NoTime ELSE handlers[h].unban_time]

\* _log_action, lines 369-386: without a log channel nothing is posted; the review card
\* is sent with its view, and a failed send ends the handler.
RemoveLogAction(h) ==
    /\ handlers[h].pc = "log"
    /\ \E sent \in BOOLEAN :
         IF config.log_channel_id # 0 /\ sent
         THEN /\ cards' = Append(cards, [user_id |-> handlers[h].m,
                                         permban |-> handlers[h].is_permban,
                                         disabled |-> FALSE])
              /\ views' = views \cup {Len(cards) + 1}
              /\ handlers' = [handlers EXCEPT ![h].pc = "store",
                                              ![h].message_id = Len(cards) + 1,
                                              ![h].mod = NoMod, ![h].probed = <<>>]
         ELSE /\ handlers' = [handlers EXCEPT ![h] = IdleHandler]
              /\ UNCHANGED <<cards, views>>
    /\ UNCHANGED <<now, config, join_cache, bounce_counts, tempbans, log_actions, status,
                   banned, unban_loop, override, restore, last_sanction, joins,
                   notices, leaves>>

\* _store_log_action, lines 393-394: the read of the ledger.
StoreLogActionRead(h) ==
    /\ handlers[h].pc = "store"
    /\ handlers' = [handlers EXCEPT ![h].pc = "set", ![h].actions = log_actions]
    /\ UNCHANGED <<now, config, join_cache, bounce_counts, tempbans, log_actions, cards,
                   status, banned, unban_loop, override, views, restore, last_sanction,
                   joins,
                   notices, leaves>>

\* _store_log_action, lines 395-399: the ledger that was read, with the entry, is written;
\* nothing is written when the message id was found in it.
StoreLogActionSet(h) ==
    /\ handlers[h].pc = "set"
    /\ log_actions' =
         IF \E i \in 1..Len(handlers[h].actions) :
                handlers[h].actions[i].message_id = handlers[h].message_id
         THEN log_actions
         ELSE StoreLogAction(handlers[h].actions, handlers[h].m, handlers[h].message_id,
                             Payload(h))
    /\ handlers' = [handlers EXCEPT ![h] = IdleHandler]
    /\ UNCHANGED <<now, config, join_cache, bounce_counts, tempbans, cards, status, banned,
                   unban_loop, override, views, restore, last_sanction, joins,
                   notices, leaves>>

\* ---------------------------------------------------------------- _unban_loop
Expired(entry, at) == ~(entry.expires_at > at)

\* the next index of the snapshot, from i on, whose entry the tick acts on (0: none)
NextExpired(snapshot, i, at) ==
    LET S == {j \in i..Len(snapshot) : Expired(snapshot[j], at)}
    IN IF S = {} THEN 0 ELSE CHOOSE j \in S : \A k \in S : j <= k

\* what guild.unban may answer for a user
UnbanOutcomes(user_id) ==
    (IF user_id \in banned THEN {"ok"} ELSE {"not_found"}) \cup {"forbidden", "unavailable"}

\* Lines 725-733: a tick reads the ledger and the clock once, then walks its copy.
\* A tick that finds nothing expired changes nothing.
UnbanLoopStart ==
    /\ unban_loop.pc = "idle"
    /\ NextExpired(tempbans, 1, now) # 0
    /\ unban_loop' = [pc |-> "unban", snapshot |-> tempbans,
                      idx |-> NextExpired(tempbans, 1, now), now |-> now, calls |-> <<>>]
    /\ UNCHANGED <<now, config, join_cache, bounce_counts, tempbans, log_actions, cards,
                   status, banned, handlers, override, last_sanction, joins,
                   views, restore,
                   notices, leaves>>

\* UnbanLoopUnban with a failed reversal ending the tick
UnbanLoopUnbanRaising ==
    /\ unban_loop.pc = "unban"
    /\ LET user_id == unban_loop.snapshot[unban_loop.idx].user_id
       IN \E outcome \in UnbanOutcomes(user_id) :
            /\ banned' = IF outcome = "ok" THEN banned \ {user_id} ELSE banned
            /\ unban_loop' = IF outcome \in {"ok", "not_found"}
                              THEN [unban_loop EXCEPT !.pc = "remove",
                                                      !.calls = Append(@, user_id)]
                              ELSE IdleLoop
    /\ UNCHANGED <<now, config, join_cache, bounce_counts, tempbans, log_actions, cards,
                   status, handlers, override, last_sanction, joins,
                   views, restore,
                   notices, leaves>>

\* Lines 734-738: the reversal of one expired entry; every failure is swallowed.
UnbanLoopUnban ==
    /\ unban_loop.pc = "unban"
    /\ LET user_id == unban_loop.snapshot[unban_loop.idx].user_id
       IN \E outcome \in UnbanOutcomes(user_id) :
            /\ banned' = IF outcome = "ok" THEN banned \ {user_id} ELSE banned
            /\ unban_loop' = [unban_loop EXCEPT !.pc = "remove",
                                                !.calls = Append(@, user_id)]
    /\ UNCHANGED <<now, config, join_cache, bounce_counts, tempbans, log_actions, cards,
                   status, handlers, override, last_sanction, joins,
                   views, restore,
                   notices, leaves>>

\* UnbanLoopRemove keeping the record of a user who is still banned, for a later tick
UnbanLoopRemoveIfUnbanned ==
    /\ unban_loop.pc = "remove"
    /\ LET user_id == unban_loop.snapshot[unban_loop.idx].user_id
       IN tempbans' = IF user_id \in banned THEN tempbans
                      ELSE SelectSeq(tempbans, LAMBDA e : e.user_id # user_id)
    /\ LET next == NextExpired(unban_loop.snapshot, unban_loop.idx + 1, unban_loop.now)
       IN unban_loop' = IF next = 0 THEN IdleLoop
                        ELSE [unban_loop EXCEPT !.pc = "unban", !.idx = next]
    /\ UNCHANGED <<now, config, join_cache, bounce_counts, log_actions, cards, status,
                   banned, handlers, override, last_sanction, joins,
                   views, restore,
                   notices, leaves>>

\* Lines 739-740: _remove_tempban of the entry's user, then on to the next entry.
UnbanLoopRemove ==
    /\ unban_loop.pc = "remove"
    /\ tempbans' = RemoveTempban(tempbans, unban_loop.snapshot[unban_loop.idx].user_id)
    /\ LET next == NextExpired(unban_loop.snapshot, unban_loop.idx + 1, unban_loop.now)
       IN unban_loop' = IF next = 0 THEN IdleLoop
                        ELSE [unban_loop EXCEPT !.pc = "unban", !.idx = next]
    /\ UNCHANGED <<now, config, join_cache, bounce_counts, log_actions, cards, status,
                   banned, handlers, override, last_sanction, joins,
                   views, restore,
                   notices, leaves>>

\* ---------------------------------------------------------- _handle_log_action
\* the users who may press a button of a card
GuildOwner == [guild_owner |-> TRUE, bot_owner |-> FALSE, member |-> TRUE,
               administrator |-> TRUE]

Actors ==
    {GuildOwner,
     [guild_owner |-> FALSE, bot_owner |-> TRUE, member |-> FALSE, administrator |-> FALSE],
     [guild_owner |-> FALSE, bot_owner |-> FALSE, member |-> TRUE, administrator |-> TRUE],
     [guild_owner |-> FALSE, bot_owner |-> FALSE, member |-> TRUE, administrator |-> FALSE],
     NoActor}

\* _user_is_admin with any member of the guild passing
UserIsAdminAnyMember(user) ==
    IF user.guild_owner THEN TRUE
    ELSE IF user.bot_owner THEN TRUE
    ELSE user.member

\* _user_is_admin
UserIsAdmin(user) ==
    IF user.guild_owner THEN TRUE
    ELSE IF user.bot_owner THEN TRUE
    ELSE IF ~user.member THEN FALSE
    ELSE user.administrator

\* what guild.ban may answer
BanOutcomes == {"ok", "forbidden", "unavailable"}

\* Lines 502-503 and 534-538: the reply for the outcome of the platform call.
OverrideResponse(action, outcome) ==
    IF outcome = "ok" THEN "done"
    ELSE IF action = "unban" /\ outcome = "not_found" THEN "not_banned"
    ELSE "failed"

\* HandleLogAction going on to the cleanup whatever the platform answered
HandleLogActionUnchecked(message_id, action, actor, outcome) ==
    /\ override.pc = "idle"
    /\ message_id \in views
    /\ ~cards[message_id].disabled
    /\ action = "permban" => ~cards[message_id].permban
    /\ outcome \in (IF action = "permban" THEN BanOutcomes
                    ELSE UnbanOutcomes(cards[message_id].user_id))
    /\ LET user_id == cards[message_id].user_id
           call == [IdleOverride EXCEPT !.action = action, !.user_id = user_id,
                                        !.message_id = message_id, !.actor = actor,
                                        !.outcome = outcome]
       IN IF ~UserIsAdmin(actor)
          THEN /\ override' = [call EXCEPT !.pc = "respond", !.outcome = "",
                                           !.response = "admin_only"]
               /\ UNCHANGED <<status, banned, last_sanction>>
          ELSE /\ IF action = "permban" /\ outcome = "ok"
                  THEN /\ PlatformBan(user_id)
                       /\ last_sanction' = [last_sanction EXCEPT ![user_id] = "permanent"]
                  ELSE /\ banned' = IF outcome = "ok" THEN banned \ {user_id} ELSE banned
                       /\ UNCHANGED <<status, last_sanction>>
               /\ override' = [call EXCEPT !.pc = "rmtemp"]
    /\ UNCHANGED <<now, config, join_cache, bounce_counts, tempbans, log_actions, cards,
                   handlers, unban_loop, views, restore, joins,
                   notices, leaves>>

\* Lines 453-475, 502-508 and 534-538: a user presses a button of a posted card whose
\* view is live.  The authority check comes first; then the platform call, whose failure
\* is answered and ends the handler.  (One guild is modelled: the card's guild is the
\* interaction's guild.)
HandleLogAction(message_id, action, actor, outcome) ==
    /\ override.pc = "idle"
    /\ message_id \in views
    /\ ~cards[message_id].disabled
    /\ action = "permban" => ~cards[message_id].permban
    /\ outcome \in (IF action = "permban" THEN BanOutcomes
                    ELSE UnbanOutcomes(cards[message_id].user_id))
    /\ LET user_id == cards[message_id].user_id
           call == [IdleOverride EXCEPT !.action = action, !.user_id = user_id,
                                        !.message_id = message_id, !.actor = actor,
                                        !.outcome = outcome]
       IN IF ~UserIsAdmin(actor)
          THEN /\ override' = [call EXCEPT !.pc = "respond", !.outcome = "",
                                           !.response = "admin_only"]
               /\ UNCHANGED <<status, banned, last_sanction>>
          ELSE IF outcome = "ok"
          THEN /\ IF action = "permban"
                  THEN /\ PlatformBan(user_id)
                       /\ last_sanction' = [last_sanction EXCEPT ![user_id] = "permanent"]
                  ELSE /\ banned' = banned \ {user_id}
                       /\ UNCHANGED <<status, last_sanction>>
               /\ override' = [call EXCEPT !.pc = "rmtemp"]
          ELSE /\ override' = [call EXCEPT !.pc = "respond",
                                           !.response = OverrideResponse(action, outcome)]
               /\ UNCHANGED <<status, banned, last_sanction>>
    /\ UNCHANGED <<now, config, join_cache, bounce_counts, tempbans, log_actions, cards,
                   handlers, unban_loop, views, restore, joins,
                   notices, leaves>>

\* the permban button
HandleLogActionPermban(message_id, actor, outcome) ==
    HandleLogAction(message_id, "permban", actor, outcome)

\* the unban button
HandleLogActionUnban(message_id, actor, outcome) ==
    HandleLogAction(message_id, "unban", actor, outcome)

\* Lines 465-467, 503 and 536-538: the reply to a press that was refused or that failed.
HandleLogActionRespond ==
    /\ override.pc = "respond"
    /\ override' = IdleOverride
    /\ UNCHANGED <<now, config, join_cache, bounce_counts, tempbans, log_actions, cards,
                   status, banned, handlers, unban_loop, views, restore, last_sanction,
                   joins,
                   notices, leaves>>

\* _remove_log_action on the ledger it has read
RemoveLogActionEntry(actions, message_id) ==
    SelectSeq(actions, LAMBDA e : e.message_id # message_id)

\* Lines 476 and 509, then 402-403: _remove_tempban of the card's user, and the read of
\* the action ledger by _remove_log_action.
HandleLogActionRemoveTempban ==
    /\ override.pc = "rmtemp"
    /\ tempbans' = RemoveTempban(tempbans, override.user_id)
    /\ override' = [override EXCEPT !.pc = "rmset", !.actions = log_actions]
    /\ UNCHANGED <<now, config, join_cache, bounce_counts, log_actions, cards, status,
                   banned, handlers, unban_loop, views, restore, last_sanction, joins,
                   notices, leaves>>

\* the ledger _remove_log_action writes: what it read without the entry, when the entry
\* was in it
RemoveLogActionSet(current, actions, message_id) ==
    IF Len(RemoveLogActionEntry(actions, message_id)) # Len(actions)
    THEN RemoveLogActionEntry(actions, message_id)
    ELSE current

\* HandleLogActionFinish putting the entry back when the card could not be edited
HandleLogActionFinishUndo ==
    /\ override.pc = "rmset"
    /\ \E edited \in BOOLEAN :
         /\ cards' = IF edited THEN [cards EXCEPT ![override.message_id].disabled = TRUE]
                     ELSE cards
         /\ log_actions' =
              IF edited
              THEN RemoveLogActionSet(log_actions, override.actions, override.message_id)
              ELSE log_actions
    /\ override' = IdleOverride
    /\ UNCHANGED <<now, config, join_cache, bounce_counts, tempbans, status, banned,
                   handlers, unban_loop, views, restore, last_sanction, joins,
                   notices, leaves>>

\* Lines 404-406, then 478-502 and 511-534: the ledger is written; the buttons are
\* disabled and the card is edited, a failed edit leaving the posted card as it was;
\* then the reply.  (The edit is seen only by a later press.)
HandleLogActionFinish ==
    /\ override.pc = "rmset"
    /\ log_actions' = RemoveLogActionSet(log_actions, override.actions, override.message_id)
    /\ \E edited \in BOOLEAN :
         cards' = IF edited THEN [cards EXCEPT ![override.message_id].disabled = TRUE]
                  ELSE cards
    /\ override' = IdleOverride
    /\ UNCHANGED <<now, config, join_cache, bounce_counts, tempbans, status, banned,
                   handlers, unban_loop, views, restore, last_sanction, joins,
                   notices, leaves>>

\* ------------------------------------------------- _restore_log_action_views
\* an entry the restore keeps: it has a user id and a message id
Restorable(entry) == entry.user_id # 0 /\ entry.message_id # 0

\* Lines 415-438: the entries for which a view was added
CleanedActions(actions) == SelectSeq(actions, Restorable)

\* Lines 409-438: the ledger is read and a view is bound for every entry kept.
RestoreLogActionViews ==
    /\ restore.pc = "start"
    /\ views' = views \cup {CleanedActions(log_actions)[i].message_id :
                               i \in 1..Len(CleanedActions(log_actions))}
    /\ restore' = IF Len(CleanedActions(log_actions)) # Len(log_actions)
                  THEN [pc |-> "set", actions |-> CleanedActions(log_actions)]
                  ELSE RestoreDone
    /\ UNCHANGED <<now, config, join_cache, bounce_counts, tempbans, log_actions, cards,
                   status, banned, handlers, unban_loop, override, last_sanction, joins,
                   notices, leaves>>

\* Lines 440-441: the cleaned ledger is written.
RestoreLogActionSet ==
    /\ restore.pc = "set"
    /\ log_actions' = restore.actions
    /\ restore' = RestoreDone
    /\ UNCHANGED <<now, config, join_cache, bounce_counts, tempbans, cards, status, banned,
                   handlers, unban_loop, override, views, last_sanction, joins,
                   notices, leaves>>

\* ------------------------------------------------------------- _cleanup_loop
\* CleanupLoop taking out the records that are exactly two hours old as well
CleanupLoopInclusive ==
    /\ join_cache' = [m \in Members |->
                         IF join_cache[m] # NoTime /\ join_cache[m] <= now - RetentionSeconds
                         THEN NoTime ELSE join_cache[m]]
    /\ UNCHANGED <<now, config, bounce_counts, tempbans, log_actions, cards, status,
                   banned, handlers, unban_loop, override, views, restore, notices,
                   last_sanction, joins, leaves>>

\* Lines 746-756: a run of the sweep; every join record older than the cutoff is popped.
CleanupLoop ==
    /\ join_cache' = [m \in Members |->
                         IF join_cache[m] # NoTime /\ join_cache[m] < now - RetentionSeconds
                         THEN NoTime ELSE join_cache[m]]
    /\ UNCHANGED <<now, config, bounce_counts, tempbans, log_actions, cards, status,
                   banned, handlers, unban_loop, override, views, restore, notices,
                   last_sanction, joins, leaves>>

\* ------------------------------------------------------------- bounce window
\* the values an administrator may type
WindowInputs == {9, 10, 3600, 3601, 7201}

\* BounceWindow storing whatever was typed
BounceWindowUnchecked(seconds) ==
    /\ config' = [config EXCEPT !.window_seconds = seconds]
    /\ UNCHANGED <<now, join_cache, bounce_counts, tempbans, log_actions, cards, status,
                   banned, handlers, unban_loop, override, views, restore, notices,
                   last_sanction, joins, leaves>>

\* Lines 805-811: the window command; a value outside 10..3600 is refused.
BounceWindow(seconds) ==
    /\ config' = IF seconds < MinWindowSeconds \/ seconds > MaxWindowSeconds
                 THEN config
                 ELSE [config EXCEPT !.window_seconds = seconds]
    /\ UNCHANGED <<now, join_cache, bounce_counts, tempbans, log_actions, cards, status,
                   banned, handlers, unban_loop, override, views, restore, notices,
                   last_sanction, joins, leaves>>

\* ---------------------------------------------------------------- bounce count
CountValues == {"reset"}

\* Lines 905-924: the new counter value
BounceCountValue(current, value) == IF value = "reset" THEN 0 ELSE current

BounceCount(m) ==
    /\ bounce_counts[m] # 0
    /\ \E value \in CountValues :
         bounce_counts' = [bounce_counts EXCEPT ![m] = BounceCountValue(@, value)]
    /\ UNCHANGED <<now, config, join_cache, tempbans, log_actions, cards, status, banned,
                   handlers, unban_loop, override, last_sanction, joins,
                   views, restore,
                   notices, leaves>>

\* ------------------------------------------------------------------- the clock
Unexpired == {i \in 1..Len(tempbans) : tempbans[i].expires_at > now}

\* A platform call or a config access takes far less than a step of the clock: the
\* clock advances while no handler, tick or override is between two of its awaits.
Quiet ==
    /\ \A h \in Handlers : \/ handlers[h].pc = "idle"
                            \/ (handlers[h].pc = "sleep" /\ handlers[h].wake > now)
    /\ unban_loop.pc = "idle"
    /\ override.pc = "idle"
    /\ restore.pc # "set"

\* The clock steps on inside the modelled span of time, and past it while a handler
\* is still in its settle delay.
AdvanceTime ==
    /\ Quiet
    /\ \E d \in TimeSteps :
         /\ now + d <= MaxTime \/ \E h \in Handlers : handlers[h].pc = "sleep"
         /\ now' = now + d
    /\ UNCHANGED <<config, join_cache, bounce_counts, tempbans, log_actions, cards, status,
                   banned, handlers, unban_loop, override, last_sanction, joins,
                   views, restore,
                   notices, leaves>>

\* the clock reaches the earliest expiry still ahead
AdvanceToExpiry ==
    /\ Quiet
    /\ \A h \in Handlers : handlers[h].pc = "idle"
    /\ Unexpired # {}
    /\ now' = tempbans[CHOOSE i \in Unexpired :
                         \A j \in Unexpired : tempbans[i].expires_at <= tempbans[j].expires_at]
                .expires_at
    /\ UNCHANGED <<config, join_cache, bounce_counts, tempbans, log_actions, cards, status,
                   banned, handlers, unban_loop, override, last_sanction, joins,
                   views, restore,
                   notices, leaves>>

\* ------------------------------------------------------------------------ Next
\* The overrides taken here are the ones that go through: a press that is refused, or
\* whose platform call fails, changes nothing but its reply and is taken in NextCards.
Next ==
    \/ \E m \in Members : OnMemberJoin(m)
    \/ \E m \in Members : OnMemberRemove(m)
    \/ \E h \in Handlers : RemovePermban(h)
    \/ \E h \in Handlers : RemoveClearTempban(h)
    \/ \E h \in Handlers : RemoveTempbanDelegated(h)
    \/ \E h \in Handlers : RemoveTempbanDirect(h)
    \/ \E h \in Handlers : RemoveAddTempban(h)
    \/ \E h \in Handlers : RemoveLogAction(h)
    \/ \E h \in Handlers : StoreLogActionRead(h)
    \/ \E h \in Handlers : StoreLogActionSet(h)
    \/ UnbanLoopStart
    \/ UnbanLoopUnban
    \/ UnbanLoopRemove
    \/ \E c \in views : HandleLogActionPermban(c, GuildOwner, "ok")
    \/ \E c \in views : HandleLogActionUnban(c, GuildOwner, "ok")
    \/ HandleLogActionRemoveTempban
    \/ HandleLogActionFinish
    \/ AdvanceTime
    \/ AdvanceToExpiry

Spec == Init /\ [][Next]_vars

\* The loop task ticks every minute and each coroutine runs on to its end; the clock
\* cannot be held back for ever by steps that take no time.
Fairness ==
    /\ WF_vars(UnbanLoopStart)
    /\ WF_vars(UnbanLoopUnban)
    /\ WF_vars(UnbanLoopRemove)
    /\ WF_vars(\E h \in Handlers :
                  \/ RemovePermban(h) \/ RemoveClearTempban(h) \/ RemoveTempbanDelegated(h)
                  \/ RemoveTempbanDirect(h) \/ RemoveAddTempban(h) \/ RemoveLogAction(h)
                  \/ StoreLogActionRead(h) \/ StoreLogActionSet(h))
    /\ WF_vars(HandleLogActionRemoveTempban)
    /\ WF_vars(HandleLogActionFinish)
    /\ SF_vars(AdvanceTime)
    /\ SF_vars(AdvanceToExpiry)

FairSpec == Init /\ [][Next]_vars /\ Fairness

\* Lines 257-290: the process is stopped and started again.  What it held in memory is
\* gone with its coroutines; the stored settings and the platform are as they were.
Restart ==
    /\ restore.pc = "done"
    /\ join_cache' = [m \in Members |-> NoTime]
    /\ handlers' = [h \in Handlers |-> IdleHandler]
    /\ unban_loop' = IdleLoop
    /\ override' = IdleOverride
    /\ views' = {}
    /\ restore' = [pc |-> "start", actions |-> <<>>]
    /\ UNCHANGED <<now, config, bounce_counts, tempbans, log_actions, cards, status,
                   banned, last_sanction, joins,
                   notices, leaves>>

\* the specification of the cards: a process starting on stored ledgers with no member
\* joining, the restore of the views, every press of a button with its reply, and the
\* unban loop
NextCards ==
    \/ RestoreLogActionViews
    \/ RestoreLogActionSet
    \/ \E c \in views, actor \in Actors, outcome \in BanOutcomes :
          HandleLogActionPermban(c, actor, outcome)
    \/ \E c \in views, actor \in Actors :
          \E outcome \in UnbanOutcomes(cards[c].user_id) :
             HandleLogActionUnban(c, actor, outcome)
    \/ HandleLogActionRespond
    \/ HandleLogActionRemoveTempban
    \/ HandleLogActionFinish
    \/ UnbanLoopStart
    \/ UnbanLoopUnban
    \/ UnbanLoopRemove
    \/ Restart
    \/ AdvanceTime
    \/ AdvanceToExpiry

SpecCards == InitCards /\ [][NextCards]_vars

\* The specification of the leaves: joins and leaves, a leave event that may be
\* dispatched again, and the handlers up to their cards.
NextLeave ==
    \/ \E m \in Members : OnMemberJoin(m)
    \/ \E m \in Members : OnMemberRemove(m)
    \/ \E m \in Members : OnMemberRemoveAgain(m)
    \/ \E h \in Handlers : RemovePermban(h)
    \/ \E h \in Handlers : RemoveClearTempban(h)
    \/ \E h \in Handlers : RemoveTempbanDelegated(h)
    \/ \E h \in Handlers : RemoveTempbanDirect(h)
    \/ \E h \in Handlers : RemoveAddTempban(h)
    \/ \E h \in Handlers : RemoveLogAction(h)
    \/ \E h \in Handlers : StoreLogActionRead(h)
    \/ \E h \in Handlers : StoreLogActionSet(h)
    \/ AdvanceTime

SpecLeave == Init /\ [][NextLeave]_vars

\* The specification of the sweep: hours pass between the joins and the leaves of a
\* guild with detection on, bots included, the window is set by command, and the sweep
\* runs.
SweepSteps == {3600, 3601}

AdvanceSweepTime ==
    /\ Quiet
    /\ \E d \in SweepSteps :
         /\ now + d <= MaxSweepTime
         /\ now' = now + d
    /\ UNCHANGED <<config, join_cache, bounce_counts, tempbans, log_actions, cards, status,
                   banned, handlers, unban_loop, override, views, restore, notices,
                   last_sanction, joins, leaves>>

InitSweep ==
    /\ Init
    /\ config.enabled /\ config.welcome_enabled /\ config.include_bots
    /\ config.log_channel_id = 1
    /\ bounce_counts = [m \in Members |-> 0]

NextSweep ==
    \/ \E m \in Members : MemberJoin(m)
    \/ \E m \in Members : MemberRemove(m)
    \/ \E h \in Handlers : RemoveTempbanDelegated(h)
    \/ \E h \in Handlers : RemoveTempbanDirect(h)
    \/ \E h \in Handlers : RemoveAddTempban(h)
    \/ \E h \in Handlers : RemoveLogAction(h)
    \/ \E h \in Handlers : StoreLogActionRead(h)
    \/ \E h \in Handlers : StoreLogActionSet(h)
    \/ CleanupLoop
    \/ \E seconds \in WindowInputs : BounceWindow(seconds)
    \/ AdvanceSweepTime

SpecSweep == InitSweep /\ [][NextSweep]_vars

\* The specification of the probe: the last join and leave of the modelled span (the
\* member has come and gone before, unnoticed), with no offense counted yet, handled
\* with any Mod cog the bot may have loaded.
InitProbe ==
    /\ now = 0
    /\ config = [enabled |-> TRUE, welcome_enabled |-> TRUE, include_bots |-> FALSE,
                 log_channel_id |-> 1, repeat_enabled |-> FALSE,
                 window_seconds |-> WindowSeconds]
    /\ join_cache = [m \in Members |-> NoTime]
    /\ bounce_counts = [m \in Members |-> 0]
    /\ tempbans = <<>>
    /\ log_actions = <<>>
    /\ cards = <<>>
    /\ status = [m \in Members |-> "out"]
    /\ banned = {}
    /\ handlers = [h \in Handlers |-> IdleHandler]
    /\ unban_loop = IdleLoop
    /\ override = IdleOverride
    /\ views = {}
    /\ restore = RestoreDone
    /\ notices = {}
    /\ last_sanction = [m \in Members |-> "other"]
    /\ joins = MaxJoins - 1
    /\ leaves = [m \in Members |-> IF m = 1 THEN MaxJoins - 1 ELSE 0]

NextProbe ==
    \/ OnMemberJoin(1)
    \/ OnMemberRemove(1)
    \/ \E h \in Handlers, mod \in ModCogs : TempbanDelegated(h, mod)
    \/ \E h \in Handlers, mod \in ModCogs : TempbanDirect(h, mod)
    \/ \E h \in Handlers : RemoveAddTempban(h)
    \/ \E h \in Handlers : RemoveLogAction(h)
    \/ \E h \in Handlers : StoreLogActionRead(h)
    \/ \E h \in Handlers : StoreLogActionSet(h)
    \/ AdvanceTime

SpecProbe == InitProbe /\ [][NextProbe]_vars

\* the specification with the administrator's count command, and no card pressed
NextCount ==
    \/ \E m \in Members : OnMemberJoin(m)
    \/ \E m \in Members : OnMemberRemove(m)
    \/ \E h \in Handlers : RemovePermban(h)
    \/ \E h \in Handlers : RemoveClearTempban(h)
    \/ \E h \in Handlers : RemoveTempbanDelegated(h)
    \/ \E h \in Handlers : RemoveTempbanDirect(h)
    \/ \E h \in Handlers : RemoveAddTempban(h)
    \/ \E h \in Handlers : RemoveLogAction(h)
    \/ \E h \in Handlers : StoreLogActionRead(h)
    \/ \E h \in Handlers : StoreLogActionSet(h)
    \/ UnbanLoopStart
    \/ UnbanLoopUnban
    \/ UnbanLoopRemove
    \/ \E m \in Members : BounceCount(m)
    \/ AdvanceTime
    \/ AdvanceToExpiry

SpecCount == Init /\ [][NextCount]_vars

\* ------------------------------------------------------------------ the claims
\* a leave event of m is handled in this step
LeaveEvent(m) == status[m] \in {"in", "kicked"} /\ status'[m] = "out"

\* a join event of m is handled in this step
JoinEvent(m) == status[m] = "out" /\ status'[m] = "in"

\* detection is enabled and m is not an ignored member
Detected(m) == config.enabled /\ ~(m \in Bots /\ ~config.include_bots)

\* a leave event of m, in this step, that is a bounce
BounceLeave(m) ==
    /\ LeaveEvent(m)
    /\ Detected(m)
    /\ join_cache[m] # NoTime
    /\ now - join_cache[m] <= WindowSeconds

Started(h) == handlers[h].pc = "idle" /\ handlers'[h].pc # "idle"

\* C1: a leave of a detected member, with a join record and inside the window, adds
\* exactly 1 to the member's offense counter and starts exactly one sanction, with its
\* decision taken; no other step of the run changes the counter, so the increment
\* stays whatever becomes of the notice, the delegate and the ban.
C1_CountedOnce ==
    [][\A m \in Members :
         /\ bounce_counts'[m] = bounce_counts[m] + (IF BounceLeave(m) THEN 1 ELSE 0)
         /\ BounceLeave(m) =>
              /\ Cardinality({h \in Handlers : Started(h)}) = 1
              /\ \A h \in Handlers : Started(h) =>
                   /\ handlers'[h].m = m
                   /\ handlers'[h].is_permban \in BOOLEAN
                   /\ handlers'[h].pc = "sleep"]_vars

\* a sanction failed after the offense was counted: the counter keeps the increment
C1_Witness ==
    /\ joins = 1
    /\ bounce_counts[1] = MaxInitCount + 1
    /\ \A h \in Handlers : handlers[h].pc = "idle"
    /\ banned = {}
    /\ status[1] = "out"

\* C2: a join of a detected member writes (member -> now) into the join cache, whatever
\* the other settings are.
C2_JoinRecorded ==
    [][\A m \in Members : (JoinEvent(m) /\ Detected(m)) => join_cache'[m] = now]_vars

\* C3: a leave later than the window after its join changes nothing but the join cache,
\* which loses the member's record: no counter change, no sanction started, no ledger
\* change, no card.
C3_LateLeaveOnlyEvicts ==
    [][\A m \in Members :
         (/\ LeaveEvent(m)
          /\ Detected(m)
          /\ join_cache[m] # NoTime
          /\ now - join_cache[m] > WindowSeconds)
         => /\ join_cache' = [join_cache EXCEPT ![m] = NoTime]
            /\ UNCHANGED <<bounce_counts, tempbans, log_actions, cards, banned, handlers,
                           unban_loop, override, last_sanction>>]_vars

\* a recorded join was followed by a leave that counted nothing
C3_Witness ==
    /\ config.enabled /\ config.welcome_enabled /\ config.include_bots
    /\ joins = 1
    /\ now = MaxTime
    /\ \A m \in Members :
         status[m] = "out" /\ bounce_counts[m] = 0 /\ join_cache[m] = NoTime

\* C4: the decision is a function of the counter value after the increment: 1 and 2
\* give a temporary sanction, 3 and more a permanent one (so a counter reset to 0 gives
\* a temporary one), and the sanction carried out is the one decided.
C4_Escalation ==
    /\ [](\A h \in Handlers :
            /\ handlers[h].pc # "idle" =>
                 /\ handlers[h].current \in {1, 2} => ~handlers[h].is_permban
                 /\ handlers[h].current >= 3 => handlers[h].is_permban
                 /\ handlers[h].current >= 1
            /\ handlers[h].pc = "add" => ~handlers[h].is_permban
            /\ handlers[h].pc = "clear" => handlers[h].is_permban)
    /\ [][\A h \in Handlers : Started(h) =>
            /\ handlers'[h].current = bounce_counts[handlers'[h].m] + 1
            /\ handlers'[h].current = bounce_counts'[handlers'[h].m]]_vars

\* a temporary sanction on a second offense and a permanent one on a third, in flight
C4_Witness ==
    \E g, h \in Handlers :
        /\ handlers[g].pc = "add" /\ handlers[g].current = 2
        /\ handlers[h].pc = "clear" /\ handlers[h].current = 3

\* C5: the tempban ledger holds at most one record per subject.
C5_OneRecordPerSubject ==
    \A m \in Members : Cardinality(RecordsOf(tempbans, m)) <= 1

\* C6: with no leave handler and no override of the subject in flight, a subject whose
\* most recent successful sanction was permanent has no record in the tempban ledger.
C6_PermanentSupersedes ==
    \A m \in Members :
        (/\ InFlight(m) = {}
         /\ ~(override.pc # "idle" /\ override.user_id = m)
         /\ last_sanction[m] = "permanent")
        => RecordsOf(tempbans, m) = {}

\* the tick issues a reversal for user_id in this step
LoopUnbans(user_id) ==
    /\ unban_loop.pc = "unban"
    /\ unban_loop'.pc = "remove"
    /\ unban_loop.snapshot[unban_loop.idx].user_id = user_id

\* C7: the unban loop issues no reversal for a subject whose most recent successful
\* sanction was permanent and for whom no temporary sanction is recorded.
C7_NoReversalOfPermanent ==
    [][\A m \in Members :
         LoopUnbans(m) => ~(last_sanction[m] = "permanent" /\ RecordsOf(tempbans, m) = {})]_vars

\* the users of the entries among the first n of a snapshot that had expired at `at`
ExpiredUsers(snapshot, n, at) ==
    LET e == SelectSeq(SubSeq(snapshot, 1, n), LAMBDA x : x.expires_at <= at)
    IN [i \in 1..Len(e) |-> e[i].user_id]

\* C8: a tick walks the whole ledger it read: each entry with expires_at <= now gets one
\* reversal call, in order, and whatever the call answers the user's record is removed
\* next and the tick goes on to the next expired entry, ending after the last one.
C8_TickReversesAllExpired ==
    /\ [](unban_loop.pc # "idle" =>
            unban_loop.calls =
                ExpiredUsers(unban_loop.snapshot,
                             IF unban_loop.pc = "remove" THEN unban_loop.idx
                             ELSE unban_loop.idx - 1,
                             unban_loop.now))
    /\ [][/\ (unban_loop.pc = "idle" /\ unban_loop'.pc # "idle") =>
               unban_loop'.snapshot = tempbans /\ unban_loop'.now = now
          /\ (unban_loop.pc = "unban" /\ unban_loop' # unban_loop) =>
               unban_loop'.pc = "remove"
          /\ (unban_loop.pc = "remove" /\ unban_loop' # unban_loop) =>
               /\ RecordsOf(tempbans', unban_loop.snapshot[unban_loop.idx].user_id) = {}
               /\ IF \E j \in (unban_loop.idx + 1)..Len(unban_loop.snapshot) :
                        unban_loop.snapshot[j].expires_at <= unban_loop.now
                  THEN unban_loop'.pc = "unban" /\ unban_loop'.snapshot = unban_loop.snapshot
                  ELSE unban_loop'.pc = "idle"]_vars

\* the first reversal of a tick failed and the tick is at its second expired entry
C8_Witness ==
    /\ unban_loop.pc = "unban"
    /\ unban_loop.idx = 2
    /\ unban_loop.calls = <<unban_loop.snapshot[1].user_id>>
    /\ unban_loop.snapshot[1].user_id \in banned
    /\ unban_loop.snapshot[1].user_id # unban_loop.snapshot[2].user_id
    /\ RecordsOf(tempbans, unban_loop.snapshot[1].user_id) = {}

\* C9: a tick's removal leaves every record with expires_at in the future as it is.
C9_UnexpiredUntouched ==
    [][(unban_loop.pc = "remove" /\ unban_loop' # unban_loop) =>
         SelectSeq(tempbans', LAMBDA e : e.expires_at > now)
             = SelectSeq(tempbans, LAMBDA e : e.expires_at > now)]_vars

\* C10: with the loop ticking and the clock advancing, a subject with a record in the
\* tempban ledger is eventually without one: no record stays for ever.
C10_EveryRecordRemoved ==
    \A m \in Members : (RecordsOf(tempbans, m) # {}) ~> (RecordsOf(tempbans, m) = {})

\* the clock has reached a record's expiry and the tick has reversed the ban and
\* removed the record of its first entry
C10_Witness ==
    /\ unban_loop.pc = "unban"
    /\ unban_loop.idx > 1
    /\ now >= unban_loop.snapshot[1].expires_at
    /\ unban_loop.snapshot[1].user_id \notin banned
    /\ RecordsOf(tempbans, unban_loop.snapshot[1].user_id) = {}

\* the card has no PendingAction in the action ledger
Resolved(message_id) ==
    \A i \in 1..Len(log_actions) : log_actions[i].message_id # message_id

\* a button of a card is pressed in this step
Pressed == override.pc = "idle" /\ override'.pc # "idle"

\* C11: a press on a card whose PendingAction is already deleted is answered with a
\* rejection, makes no platform ban or unban go through and changes neither ledger.
C11_ReplayIsNoOp ==
    [][(Pressed /\ Resolved(override'.message_id)) =>
         /\ override'.pc = "respond"
         /\ override'.response # "done"
         /\ banned' = banned
         /\ tempbans' = tempbans
         /\ log_actions' = log_actions]_vars

\* the user is not the guild's owner, not the bot's owner and has no administrator
\* permission
Unauthorised(user) == ~user.guild_owner /\ ~user.bot_owner /\ ~user.administrator

\* C12: a press by a user without authority is answered with the notice and changes
\* nothing: no platform call, both ledgers as they were, the card's buttons enabled.
C12_UnauthorisedRejected ==
    [][/\ (Pressed /\ Unauthorised(override'.actor)) =>
            /\ override'.pc = "respond"
            /\ override'.response = "admin_only"
            /\ override'.outcome = ""
       /\ ((Pressed /\ Unauthorised(override'.actor))
             \/ (override.pc = "respond" /\ override.response = "admin_only"
                    /\ override' # override)) =>
            /\ banned' = banned
            /\ status' = status
            /\ tempbans' = tempbans
            /\ log_actions' = log_actions
            /\ cards' = cards]_vars

\* the notice is ready for a user without authority who pressed a pending card
C12_Witness ==
    /\ override.pc = "respond"
    /\ override.response = "admin_only"
    /\ Unauthorised(override.actor)
    /\ ~Resolved(override.message_id)
    /\ ~cards[override.message_id].disabled

\* the process is stopped and started again in this step
Restarted == restore.pc = "done" /\ restore'.pc = "start"

\* C13: an accepted permban press whose ban went through removes every tempban record
\* of the user and deletes the PendingAction the card had when its ledger was read, also
\* when the card's edit fails.
C13_PermbanCleansUp ==
    [][/\ (override.pc = "rmtemp" /\ override.action = "permban" /\ override'.pc = "rmset")
            => RecordsOf(tempbans', override.user_id) = {}
       /\ (override.pc = "rmset" /\ override.action = "permban" /\ override'.pc = "idle"
              /\ ~Restarted
              /\ \E i \in 1..Len(override.actions) :
                    override.actions[i].message_id = override.message_id)
            => \A i \in 1..Len(log_actions') :
                  log_actions'[i].message_id # override.message_id]_vars

\* a permban press has finished: the user is banned for good and has no tempban record,
\* the entry is deleted and the card is still as it was posted because its edit failed
C13_Witness ==
    /\ override.pc = "idle"
    /\ \E c \in views :
         /\ Resolved(c)
         /\ ~cards[c].disabled
         /\ cards[c].user_id \in banned
         /\ last_sanction[cards[c].user_id] = "permanent"
         /\ RecordsOf(tempbans, cards[c].user_id) = {}

\* C14: an accepted unban press that the platform answers with "not banned" is a
\* success: the user's tempban records are removed, the card's PendingAction is deleted
\* and the card's buttons are disabled, as after an unban that went through.
C14_NotBannedIsSuccess ==
    [][(Pressed /\ override'.action = "unban" /\ override'.outcome = "not_found") =>
         /\ override'.pc = "rmtemp"
         /\ override'.response # "not_banned"]_vars

\* C15: an accepted press whose platform call fails (forbidden or unavailable) is
\* answered with the failure and leaves both ledgers, the ban list, the card and its
\* view as they were, so the press can be made again.
C15_FailedCallReported ==
    [][/\ (Pressed /\ override'.outcome \in {"forbidden", "unavailable"}) =>
            /\ override'.pc = "respond"
            /\ override'.response = "failed"
       /\ ((Pressed /\ override'.outcome \in {"forbidden", "unavailable"})
             \/ (override.pc = "respond" /\ override.response = "failed"
                    /\ override' # override)) =>
            /\ banned' = banned
            /\ status' = status
            /\ tempbans' = tempbans
            /\ log_actions' = log_actions
            /\ cards' = cards
            /\ (~Restarted => views' = views)]_vars

\* the failure is ready for an administrator whose press on a pending card failed
C15_Witness ==
    /\ override.pc = "respond"
    /\ override.response = "failed"
    /\ UserIsAdmin(override.actor)
    /\ ~Resolved(override.message_id)
    /\ ~cards[override.message_id].disabled
    /\ override.message_id \in views

\* a stored entry with its user id, its message id and a payload that is a dict
WellFormed(entry) == entry.user_id # 0 /\ entry.message_id # 0 /\ entry.payload.dict

\* C16: the restore binds a view for exactly the well-formed entries of the stored
\* ledger and leaves exactly those entries stored, every malformed entry removed.
C16_RestoreKeepsWellFormed ==
    [][(restore.pc = "start" /\ restore'.pc # "start") =>
         LET kept == SelectSeq(log_actions, WellFormed)
         IN /\ views' = views \cup {kept[i].message_id : i \in 1..Len(kept)}
            /\ restore'.pc = "done" => log_actions = kept
            /\ restore'.pc = "set" => restore'.actions = kept]_vars

\* C17: the action ledger holds at most one PendingAction per message id, and storing a
\* PendingAction for a message id it holds leaves it as it is.
C17_OneActionPerCard ==
    /\ \A i, j \in 1..Len(log_actions) :
          i # j => log_actions[i].message_id # log_actions[j].message_id
    /\ \A i \in 1..Len(log_actions), m \in Members :
          StoreLogAction(log_actions, m, log_actions[i].message_id,
                         log_actions[i].payload) = log_actions

\* two handlers have stored the PendingActions of their cards
C17_Witness ==
    /\ Len(log_actions) = 2
    /\ \A h \in Handlers : handlers[h].pc = "idle"

\* C18: a PendingAction whose card nobody presses stays in the action ledger: only the
\* override of its own card takes it out.
C18_PendingStays ==
    [][\A i \in 1..Len(log_actions) :
          ~(override.pc = "rmset" /\ override.message_id = log_actions[i].message_id)
             => \E j \in 1..Len(log_actions') : log_actions'[j] = log_actions[i]]_vars

\* C19: every write of the action ledger is an atomic read-modify-write: a store leaves
\* the ledger as it was plus the stored entry, and a removal leaves it as it was minus the
\* removed entry, whatever other coroutines did in between.
C19_LedgerWritesAtomic ==
    [][/\ \A h \in Handlers :
             (handlers[h].pc = "set" /\ handlers'[h].pc = "idle")
                => log_actions' =
                      StoreLogAction(log_actions, handlers[h].m, handlers[h].message_id,
                                     Payload(h))
       /\ (override.pc = "rmset" /\ override'.pc = "idle")
             => log_actions' = RemoveLogActionEntry(log_actions, override.message_id)]_vars

\* a handler between its counter increment (lines 661-663) and the end of its sanction
\* (lines 677-708): asleep, or past the ban with the tempban ledger still to write
Sanctioning(h) == handlers[h].pc \in {"sleep", "clear", "add"}

\* C20: leave handling is serialized per member: at no time are two leave handlers of
\* the same member both between their counter increment and the end of their sanction.
C20_LeaveHandlingSerialized ==
    \A g, h \in Handlers :
        (g # h /\ Sanctioning(g) /\ Sanctioning(h)) => handlers[g].m # handlers[h].m

\* C21: teardown lets the tick in flight run to its end: the process is never stopped
\* with an unban issued for an expired record whose removal is still to come, nor with
\* the tick between two expired records.
C21_TeardownFinishesTick ==
    [][Restarted =>
          /\ unban_loop.pc # "remove"
          /\ ~(unban_loop.pc = "unban" /\ unban_loop.calls # <<>>)]_vars

\* C22: when the temporary sanction of a handler fails, that step writes no tempban
\* record, posts no review card and stores no PendingAction, bans nobody, reports the
\* failure in the log channel when one is configured, and ends the handler.
C22_FailedTempbanWritesNothing ==
    [][\A h \in Handlers :
          (handlers[h].pc = "sleep" /\ ~handlers[h].is_permban /\ handlers'[h].pc = "idle")
             => /\ tempbans' = tempbans
                /\ cards' = cards
                /\ log_actions' = log_actions
                /\ banned' = banned
                /\ handlers'[h] = IdleHandler
                /\ (config.log_channel_id # 0 => handlers[h].m \in notices')
                /\ (config.log_channel_id = 0 => notices' = notices)]_vars

\* the only leave of member 1 handled so far was a first offense whose ban failed and
\* was reported
C22_Witness ==
    /\ 1 \in notices
    /\ bounce_counts[1] = 1
    /\ tempbans = <<>>
    /\ cards = <<>>
    /\ \A h \in Handlers : handlers[h].pc = "idle"

\* C23: the tempban record a handler writes after its direct ban expires at the leave
\* time plus the ban duration.
C23_ExpiresAtLeavePlusDuration ==
    [][\A h \in Handlers :
          (handlers[h].pc = "add" /\ handlers'[h].pc = "log")
             => tempbans'[Len(tempbans')].expires_at
                   = handlers[h].leave_time + BanDurationSeconds]_vars

\* C24: when the Mod cog took the tempban, the handler goes on as for a success and a
\* tempban record of the member is in the ledger for the unban loop to act on.
C24_DelegatedStillRecorded ==
    [][\A h \in Handlers :
          (handlers[h].pc = "sleep" /\ ~handlers[h].is_permban /\ handlers'[h].pc = "log")
             => handlers[h].m \in UsersOf(tempbans')]_vars

\* C25: the probe tries _tempban, tempban_user, tempban_member, tempban in this order.
\* It reports the tempban taken exactly when some candidate completes and every
\* candidate before it is missing, not callable or raises TypeError; the names it calls
\* are, in order, the callable candidates up to the first one that completes or raises
\* something else; without a Mod cog it calls nothing and reports not handled.
C25_ProbeOrder ==
    [][\A h \in Handlers :
          (handlers[h].pc = "sleep" /\ handlers'[h].pc \in {"log", "add"})
             => LET mod == handlers'[h].mod
                    probed == handlers'[h].probed
                    handled == handlers'[h].pc = "log"
                    N == IF mod = <<>> THEN 0 ELSE 4
                    Ends == {i \in 1..N : mod[i] \in {"ok", "error"}}
                    stop == IF Ends = {} THEN N
                            ELSE CHOOSE i \in Ends : \A j \in Ends : i <= j
                    Called == {i \in 1..stop : mod[i] \in {"type_error", "error", "ok"}}
                    Name(i) == IF i = 1 THEN "_tempban"
                               ELSE IF i = 2 THEN "tempban_user"
                               ELSE IF i = 3 THEN "tempban_member"
                               ELSE "tempban"
                IN /\ handled <=> (Ends # {} /\ mod[stop] = "ok")
                   /\ Len(probed) = Cardinality(Called)
                   /\ \A k \in 1..Len(probed) :
                         \E i \in Called :
                            /\ probed[k] = Name(i)
                            /\ Cardinality({j \in Called : j < i}) = k - 1]_vars

\* the probe skipped a missing _tempban, went on after a TypeError of tempban_user and
\* stopped at tempban_member, which completed, without calling tempban
C25_Witness ==
    \E h \in Handlers :
        /\ handlers[h].pc = "log"
        /\ handlers[h].mod = <<"missing", "type_error", "ok", "ok">>
        /\ handlers[h].probed = <<"tempban_user", "tempban_member">>
        /\ tempbans = <<>>

\* C26: a join record is consumed at most once: every increment of a member's counter
\* is by 1 and takes the member's join record out of the cache, and a leave event that
\* finds no join record starts no handler and changes nothing of the cache, the
\* counters, the ledgers, the cards or the bans.
C26_JoinConsumedOnce ==
    [][\A m \in Members :
          /\ bounce_counts'[m] # bounce_counts[m]
                => /\ bounce_counts'[m] = bounce_counts[m] + 1
                   /\ join_cache[m] # NoTime
                   /\ join_cache'[m] = NoTime
          /\ (leaves'[m] # leaves[m] /\ join_cache[m] = NoTime)
                => UNCHANGED <<join_cache, bounce_counts, handlers, tempbans, log_actions,
                               cards, banned, notices>>]_vars

\* after its one join, member 1 has had two leave events handled: one handler runs and
\* the counter was raised once
C26_Witness ==
    /\ joins = 1
    /\ leaves[1] = 2
    /\ handlers[1].pc = "sleep" /\ handlers[1].m = 1
    /\ handlers[2].pc = "idle"
    /\ bounce_counts[1] = handlers[1].current

\* C27: a sweep takes out of the join cache exactly the records older than two hours,
\* and keeps every record of two hours or less; it changes no counter and no ledger.
C27_SweepRemovesOld ==
    [][(join_cache' # join_cache /\ joins' = joins /\ leaves' = leaves)
          => /\ \A m \in Members :
                   join_cache'[m] =
                      IF join_cache[m] # NoTime /\ now - join_cache[m] > 7200
                      THEN NoTime ELSE join_cache[m]
             /\ UNCHANGED <<bounce_counts, tempbans, log_actions>>]_vars

\* the record of member 1, who joined at 0 and is still there, was swept after more than
\* two hours
C27_Witness ==
    /\ now > 7200
    /\ joins = 1
    /\ status[1] = "in"
    /\ join_cache[1] = NoTime

\* C28: the sweep never takes out a join record that a leave would still find inside
\* the window, whatever window the command accepted.
C28_SweepKeepsWindow ==
    [][(join_cache' # join_cache /\ joins' = joins /\ leaves' = leaves)
          => \A m \in Members :
                (join_cache[m] # NoTime /\ now - join_cache[m] <= config.window_seconds)
                   => join_cache'[m] = join_cache[m]]_vars

\* the window is the longest the command accepts, member 1 joined an hour ago, member 2's
\* record was swept, and member 1's record is still there for its leave
C28_Witness ==
    /\ config.window_seconds = 3600
    /\ now = 7201
    /\ join_cache[1] = 3601
    /\ status[2] = "in" /\ join_cache[2] = NoTime

\* C29: the unban loop issues no unban for a subject before the expiry of the most
\* recent temporary sanction recorded for that subject.
C29_NoPrematureReversal ==
    [][\A u \in Members :
          (LoopUnbans(u) /\ RecordsOf(tempbans, u) # {})
             => \A i \in RecordsOf(tempbans, u) :
                   (\A j \in RecordsOf(tempbans, u) : j <= i)
                      => tempbans[i].expires_at <= now]_vars

\* C30: a review card is posted and a PendingAction stored only by a handler whose ban
\* went through: a handler comes to its card only from a ban that left the member
\* banned, after the tempban record of a direct ban was written with the handler's
\* unban time; the entry it stores carries that unban time and the handler's offense
\* count, which is the counter's value after the handler's own increment.
C30_CardAfterSanction ==
    [][/\ Len(cards') > Len(cards)
            => \E h \in Handlers : handlers[h].pc = "log" /\ handlers'[h].pc = "store"
       /\ \A h \in Handlers :
             /\ Started(h) => handlers'[h].current = bounce_counts'[handlers'[h].m]
             /\ (handlers[h].pc = "sleep" /\ handlers'[h].pc \in {"add", "clear", "log"})
                   => handlers[h].m \in banned'
             /\ (handlers[h].pc # "log" /\ handlers'[h].pc = "log")
                   => /\ handlers[h].pc \in {"sleep", "add", "clear"}
                      /\ handlers[h].pc = "add"
                            => /\ Len(tempbans') = Len(tempbans) + 1
                               /\ tempbans'[Len(tempbans')] =
                                     [user_id |-> handlers[h].m,
                                      expires_at |-> handlers'[h].unban_time]
             /\ (handlers[h].pc \in {"add", "log", "store", "set"}
                    /\ handlers'[h].pc # "idle")
                   => /\ handlers'[h].unban_time = handlers[h].unban_time
                      /\ handlers'[h].current = handlers[h].current
                      /\ handlers'[h].m = handlers[h].m
             /\ (handlers[h].pc = "set" /\ handlers'[h].pc = "idle"
                    /\ log_actions' # log_actions)
                   => LET entry == log_actions'[Len(log_actions')]
                      IN /\ entry.user_id = handlers[h].m
                         /\ entry.message_id = handlers[h].message_id
                         /\ entry.payload.bounce_count = handlers[h].current
                         /\ entry.payload.permban = handlers[h].is_permban
                         /\ ~handlers[h].is_permban
                               => entry.payload.unban_time = handlers[h].unban_time]_vars

\* the ledger holds the entry of a directly enacted tempban: its unban time is the
\* expiry of the member's tempban record and its offense count is the member's counter
C30_Witness ==
    /\ \A h \in Handlers : handlers[h].pc = "idle"
    /\ \E i \in 1..Len(log_actions), j \in 1..Len(tempbans) :
          /\ log_actions[i].user_id = 1
          /\ tempbans[j].user_id = 1
          /\ log_actions[i].payload.unban_time = tempbans[j].expires_at
          /\ log_actions[i].payload.bounce_count = bounce_counts[1]

=============================================================================
